---- MODULE Spec2Model ----
(***************************************************************************)
(* Model of src/bulk_import.py: the bulk filtered import driver.           *)
(*                                                                         *)
(* A calendar date is a triple <<year, month, day>>.  The strings the      *)
(* script builds with f"{year:04d}-{month:02d}-{day:02d}" are kept as      *)
(* these triples; DateLE is the order of the zero-padded strings.          *)
(***************************************************************************)
EXTENDS Integers, Sequences, FiniteSets, TLC

VARIABLES
    pc,                \* position of the single thread of control
    now,               \* the date datetime.now() returns
    auto,              \* sys.argv[1] == '--auto'
    date_ranges,       \* main: date_ranges
    total_operations,  \* main: total_operations
    confirm,           \* main: the raw answer read by input()
    all_results,       \* main: all_results
    operation_count,   \* main: operation_count
    wi,                \* main: index of date_range in date_ranges
    di,                \* main: index of the item of EXPORT_MAPPINGS
    max_retries,       \* make_filtered_import_request: max_retries
    attempt,           \* make_filtered_import_request: attempt
    response,          \* make_filtered_import_request: last response
    result,            \* value returned by make_filtered_import_request
    posts,             \* POSTs issued by the current executor call
    sleeps,            \* time.sleep arguments of the current executor call
    firstOk,           \* first attempt answered 200/JSON/success, 0 if none
    importPosted,      \* the process has issued an import POST
    healthGets,        \* GET /health requests issued by the process
    probe,             \* what GET /health answered
    filesWritten,      \* results files written
    saveFailed,        \* save_results_to_file caught an exception
    exc,               \* exception propagating to the top level
    endedBy,           \* how the run ended
    exitCode           \* process exit status, -1 while running

vars == <<pc, now, auto, date_ranges, total_operations, confirm, all_results,
          operation_count, wi, di, max_retries, attempt, response, result,
          posts, sleeps, firstOk, importPosted, healthGets, probe,
          filesWritten, saveFailed, exc, endedBy, exitCode>>

None == "None"

----------------------------------------------------------------------------
(* Bounds of the model *)

\* last year from which "now" is drawn for the date window generator
MaxYear == 2028
\* largest max_retries the executor is called with
MaxRetries == 4
\* number of entries of EXPORT_MAPPINGS kept in the run loop
CatalogSize == 2

----------------------------------------------------------------------------
(* Calendar *)

StartYear == 2025
StartMonth == 6
StartDay == 29

IsLeap(y) == (y % 4 = 0 /\ y % 100 # 0) \/ y % 400 = 0

\* calendar.monthrange(year, month)[1]
monthrange(y, m) ==
    IF m = 2 THEN (IF IsLeap(y) THEN 29 ELSE 28)
    ELSE IF m \in {4, 6, 9, 11} THEN 30 ELSE 31

\* order of dates, which is the order of the formatted strings
DateLE(a, b) ==
    \/ a[1] < b[1]
    \/ a[1] = b[1] /\ a[2] < b[2]
    \/ a[1] = b[1] /\ a[2] = b[2] /\ a[3] <= b[3]

MonthNames == <<"January", "February", "March", "April", "May", "June", "July",
                "August", "September", "October", "November", "December">>

\* datetime(year, month, 1).strftime("%B %Y")
strftime(y, m) == <<MonthNames[m], y>>

\* "First day of the range"
first_day(y, m) == IF m = 6 /\ y = 2025 THEN 29 ELSE 1

\* variant: the current month is not clipped to today
LastDayWholeMonth(y, m, end_date) == monthrange(y, m)

\* "Last day of the month or today if it's the current month"
last_day(y, m, end_date) ==
    IF y = end_date[1] /\ m = end_date[2] THEN end_date[3] ELSE monthrange(y, m)

\* one iteration of the while loop of generate_date_ranges, then the rest
RECURSIVE RangesFrom(_, _, _)
RangesFrom(y, m, end_date) ==
    IF ~DateLE(<<y, m, 1>>, end_date) THEN <<>>
    ELSE LET dr == [start_date |-> <<y, m, first_day(y, m)>>,
                    end_date   |-> <<y, m, last_day(y, m, end_date)>>,
                    month_name |-> strftime(y, m),
                    year       |-> y,
                    month      |-> m]
         IN  <<dr>> \o (IF m = 12 THEN RangesFrom(y + 1, 1, end_date)
                                  ELSE RangesFrom(y, m + 1, end_date))

generate_date_ranges(end_date) == RangesFrom(StartYear, StartMonth, end_date)

\* the dates "now" is drawn from
Dates(y0, y1) ==
    {t \in (y0..y1) \X (1..12) \X (1..31) : t[3] <= monthrange(t[1], t[2])}

----------------------------------------------------------------------------
(* The descriptor catalog *)

FullCatalog ==
    << [id |-> "5077534948",  name |-> "buildings"],
       [id |-> "5002645397",  name |-> "cases"],
       [id |-> "5002207692",  name |-> "conversations"],
       [id |-> "5053863837",  name |-> "interactions"],
       [id |-> "5157703494",  name |-> "nocInteractions"],
       [id |-> "4693855982",  name |-> "userStateInteractions"],
       [id |-> "5157670999",  name |-> "users"],
       [id |-> "5219392695",  name |-> "userSessionHistory"],
       [id |-> "20348692306", name |-> "schedule"],
       [id |-> "20357111093", name |-> "slaPolicy"] >>

\* the items of EXPORT_MAPPINGS in declaration order (the first CatalogSize)
EXPORT_MAPPINGS == SubSeq(FullCatalog, 1, CatalogSize)

----------------------------------------------------------------------------
(* What the backend can answer to POST /import-filtered-data *)

\* raised: requests.post raised (connection error, timeout)
\* json: "invalid" response.json() raises a json.JSONDecodeError,
\*       "invalid_other" it raises a decode error of another class,
\*       "falsy" null, {}, [] ..., "nondict" a non-empty non-object value,
\*       "dict" an object
\* results, database, jsonFile: the key is "absent", "null" or a "dict"
\* recordsInserted: "absent", "int" or "null"
Body(j, s, r, d, ri, jf) ==
    [raised |-> FALSE, status |-> 200, json |-> j, success |-> s, results |-> r,
     database |-> d, recordsInserted |-> ri, jsonFile |-> jf]

NoResponse ==
    [raised |-> FALSE, status |-> 0, json |-> "none", success |-> FALSE,
     results |-> "absent", database |-> "absent", recordsInserted |-> "absent",
     jsonFile |-> "absent"]

TransportError == [NoResponse EXCEPT !.raised = TRUE]
Http500 == [NoResponse EXCEPT !.status = 500]
Http404 == [NoResponse EXCEPT !.status = 404]

Shapes == {"absent", "null", "dict"}

SuccessBodies ==
    {Body("dict", TRUE, r, "absent", "absent", "absent") : r \in {"absent", "null"}}
    \cup {Body("dict", TRUE, "dict", d, "absent", jf) :
              d \in {"absent", "null"}, jf \in Shapes}
    \cup {Body("dict", TRUE, "dict", "dict", ri, jf) :
              ri \in {"absent", "int", "null"}, jf \in Shapes}

Responses ==
    {TransportError, Http500, Http404}
    \cup {Body(j, FALSE, "absent", "absent", "absent", "absent") :
              j \in {"invalid", "invalid_other", "falsy", "nondict", "dict"}}
    \cup SuccessBodies

\* the answers drawn in the run loop of main
MainResponses ==
    {TransportError, Http500,
     Body("dict", FALSE, "absent", "absent", "absent", "absent"),
     Body("dict", TRUE, "dict", "dict", "int", "dict"),
     Body("dict", TRUE, "dict", "dict", "null", "dict")}

\* HTTP 200, parseable body, application success flag true
OkResponse(resp) ==
    ~resp.raised /\ resp.status = 200 /\ resp.json = "dict" /\ resp.success

StatusStr(n) == CASE n = 200 -> "200" [] n = 404 -> "404" [] n = 500 -> "500"
                  [] OTHER -> "0"

AttributeError == <<"'NoneType' object has no attribute 'get'">>

\* results_data = result.get('results') or {}
results_data(resp) == IF resp.results = "dict" THEN "dict" ELSE "empty"

\* database_data = results_data.get('database') or {}
database_data(resp) ==
    IF results_data(resp) = "dict" /\ resp.database = "dict" THEN "dict" ELSE "empty"

\* database_data.get('recordsInserted', 0)
records_inserted(resp) ==
    IF database_data(resp) = "dict" /\ resp.recordsInserted # "absent"
    THEN resp.recordsInserted ELSE "0"

\* results_data.get('jsonFile', {}): the object .get('filename', 'N/A') is called on
json_file_holder(resp) ==
    IF results_data(resp) = "dict" /\ resp.jsonFile # "absent"
    THEN resp.jsonFile ELSE "dict"

\* The body of the try block of one attempt: either a returned dict or the
\* exception the except clause receives (str(e) as a sequence of parts).
TryBlock(resp) ==
    LET failed(msg) == [ok |-> FALSE, error |-> msg, records_inserted |-> "0"]
    IN
    IF resp.raised THEN failed(<<"ConnectionError">>)
    ELSE IF resp.status # 200
        THEN failed(<<"HTTP ", StatusStr(resp.status), " - ", "text">>)
    ELSE IF resp.json = "invalid"
        THEN failed(<<"Invalid JSON response: ", "JSONDecodeError", "Raw response: ", "text">>)
    ELSE IF resp.json = "invalid_other" THEN failed(<<"JSONDecodeError">>)
    ELSE IF resp.json = "falsy" THEN failed(<<"Response error: ", "Empty response">>)
    ELSE IF resp.json = "nondict"
        THEN failed(<<"object has no attribute 'get'">>)
    ELSE IF ~resp.success THEN failed(<<"Response error: ", "Unknown error">>)
    ELSE IF json_file_holder(resp) = "null" THEN failed(AttributeError)
    ELSE [ok |-> TRUE, error |-> <<>>, records_inserted |-> records_inserted(resp)]

NoResult ==
    [success |-> FALSE, export_id |-> None, data_type |-> None,
     records_inserted |-> "0", error |-> <<>>]

SuccessResult(out, export_id, data_info) ==
    [success |-> TRUE, export_id |-> export_id, data_type |-> data_info.name,
     records_inserted |-> out.records_inserted, error |-> <<>>]

FailureResult(out, export_id, data_info) ==
    [success |-> FALSE, export_id |-> export_id, data_type |-> data_info.name,
     records_inserted |-> "0", error |-> out.error]

RECURSIVE Pow2(_)
Pow2(n) == IF n = 0 THEN 1 ELSE 2 * Pow2(n - 1)

\* variant: a linear delay
BackoffLinear(a) == 2 * a

\* wait = 2 ** attempt
Backoff(a) == Pow2(a)

\* if attempt < max_retries
ShouldRetry(a, n) == a < n

\* One iteration of "for attempt in range(1, max_retries + 1)": the POST, the
\* evaluation of the answer and either the return or the backoff sleep.
Attempt(R) ==
    /\ pc = "request"
    /\ \E resp \in R :
         LET d   == EXPORT_MAPPINGS[di]
             out == TryBlock(resp)
         IN  /\ response' = resp
             /\ posts' = posts + 1
             /\ importPosted' = TRUE
             /\ firstOk' = IF firstOk = 0 /\ OkResponse(resp) THEN attempt ELSE firstOk
             /\ IF out.ok
                THEN /\ result' = SuccessResult(out, d.id, d)
                     /\ pc' = "returned"
                     /\ UNCHANGED <<attempt, sleeps>>
                ELSE IF ShouldRetry(attempt, max_retries)
                THEN /\ sleeps' = Append(sleeps, Backoff(attempt))
                     /\ attempt' = attempt + 1
                     /\ UNCHANGED <<pc, result>>
                ELSE /\ result' = FailureResult(out, d.id, d)
                     /\ pc' = "returned"
                     /\ UNCHANGED <<attempt, sleeps>>
    /\ UNCHANGED <<now, auto, date_ranges, total_operations, confirm, all_results,
                   operation_count, wi, di, max_retries, healthGets, probe,
                   filesWritten, saveFailed, exc, endedBy, exitCode>>

----------------------------------------------------------------------------
(* The date window generator and the executor on their own *)

InitCommon ==
    /\ auto = FALSE /\ confirm = <<>>
    /\ all_results = <<>> /\ operation_count = 0
    /\ response = NoResponse /\ result = NoResult
    /\ posts = 0 /\ sleeps = <<>> /\ firstOk = 0
    /\ importPosted = FALSE /\ healthGets = 0 /\ probe = None
    /\ filesWritten = 0 /\ saveFailed = FALSE
    /\ exc = None /\ endedBy = None /\ exitCode = -1

InitDates ==
    /\ InitCommon
    /\ pc = "generate"
    /\ now \in Dates(StartYear, MaxYear)
    /\ date_ranges = <<>> /\ total_operations = 0
    /\ wi = 0 /\ di = 0 /\ max_retries = 0 /\ attempt = 0

\* date_ranges = generate_date_ranges() and total_operations, in main
Generate ==
    /\ pc = "generate"
    /\ date_ranges' = generate_date_ranges(now)
    /\ total_operations' = Len(date_ranges') * Len(EXPORT_MAPPINGS)
    /\ pc' = "confirm"
    /\ UNCHANGED <<now, auto, confirm, all_results, operation_count, wi, di,
                   max_retries, attempt, response, result, posts, sleeps,
                   firstOk, importPosted, healthGets, probe, filesWritten,
                   saveFailed, exc, endedBy, exitCode>>

NextDates == Generate

SpecDates == InitDates /\ [][NextDates]_vars

ExecNow == <<2025, 7, 15>>

\* a call make_filtered_import_request(export_id, start, end, data_info, n)
InitExec ==
    /\ InitCommon
    /\ pc = "request"
    /\ now = ExecNow
    /\ date_ranges = generate_date_ranges(ExecNow)
    /\ total_operations = Len(date_ranges) * Len(EXPORT_MAPPINGS)
    /\ wi = 1 /\ di = 1
    /\ max_retries \in 1..MaxRetries
    /\ attempt = 1

NextExec == Attempt(Responses)

SpecExec == InitExec /\ [][NextExec]_vars

----------------------------------------------------------------------------
(* main and the top-level handler *)

DefaultMaxRetries == 3

\* what GET /health can answer
ProbeAnswers ==
    {"connection_error",      \* requests raised a connection error
     "timeout",               \* no answer within the timeout
     "status_503",            \* an answer with a status other than 200
     "ok",                    \* 200 and a JSON object
     "bad_json_request_exc",  \* 200, .json() raises a RequestException subclass
     "bad_json_value_error",  \* 200, .json() raises a plain ValueError
     "non_object"}            \* 200 and a JSON value without .get

Unreachable == {"connection_error", "timeout", "status_503"}

\* variant: any HTTP answer counts as reachable
ProbeTrustsAnyStatus(p) ==
    IF p \in {"connection_error", "timeout", "bad_json_request_exc"} THEN "False"
    ELSE IF p \in {"bad_json_value_error", "non_object"} THEN "raise"
    ELSE "True"

\* "True", "False", or "raise" when an exception leaves the function
test_server_connectivity(p) ==
    IF p \in {"connection_error", "timeout", "bad_json_request_exc"} THEN "False"
    ELSE IF p = "status_503" THEN "False"
    ELSE IF p \in {"bad_json_value_error", "non_object"} THEN "raise"
    ELSE "True"

\* str.lower on the characters an answer is made of
LowerChar(c) ==
    CASE c = "Y" -> "y" [] c = "E" -> "e" [] c = "S" -> "s" [] c = "N" -> "n"
      [] OTHER -> c

lower(str) == [i \in DOMAIN str |-> LowerChar(str[i])]

\* what the operator can type at the prompt
Answers ==
    {<<"y">>, <<"Y", "e", "s">>, <<>>, <<"n">>, <<"N", "O">>, <<"y", "e">>,
     <<" ", "y">>}

\* variant: the answer is not looked at
AcceptsAnything(ans) == TRUE

\* not (confirm.lower() not in ['y', 'yes'])
Accepts(ans) == lower(ans) \in {<<"y">>, <<"y", "e", "s">>}

\* variant: an interrupt exits with status 0
ExitStatusZeroOnInterrupt(e) ==
    CASE e = "SystemExit0" -> 0 [] e = "SystemExit1" -> 1
      [] e = "KeyboardInterrupt" -> 0 [] e = "Exception" -> 1 [] OTHER -> 0

\* the try/except around main(); SystemExit carries its own status
ExitStatus(e) ==
    CASE e = "SystemExit0" -> 0 [] e = "SystemExit1" -> 1
      [] e = "KeyboardInterrupt" -> 1 [] e = "Exception" -> 1 [] OTHER -> 0

\* variant: operation numbers counted from 0
DecorateZeroBased(res, date_range, count) ==
    [success |-> res.success, export_id |-> res.export_id,
     data_type |-> res.data_type, records_inserted |-> res.records_inserted,
     error |-> res.error, month_name |-> date_range.month_name,
     start_date |-> date_range.start_date, end_date |-> date_range.end_date,
     operation_number |-> count - 1]

\* result['month_name'] = ... result['operation_number'] = operation_count
Decorate(res, date_range, count) ==
    [success |-> res.success, export_id |-> res.export_id,
     data_type |-> res.data_type, records_inserted |-> res.records_inserted,
     error |-> res.error, month_name |-> date_range.month_name,
     start_date |-> date_range.start_date, end_date |-> date_range.end_date,
     operation_number |-> count]

\* variant: the inner loop stops one item early
NextPairSkipsLast(w, d) ==
    IF d < Len(EXPORT_MAPPINGS) - 1 THEN <<w, d + 1>> ELSE <<w + 1, 1>>

\* the next (date_range, item) of the nested for loops
NextPair(w, d) ==
    IF d < Len(EXPORT_MAPPINGS) THEN <<w, d + 1>> ELSE <<w + 1, 1>>

\* sum(result.get('records_inserted', 0) ...) raises TypeError on a None
SummaryRaises(results) ==
    \E i \in DOMAIN results :
        results[i].success /\ results[i].records_inserted = "null"

MainNows == {<<2025, 5, 20>>, <<2025, 6, 15>>, <<2025, 6, 30>>, <<2025, 7, 15>>}

Init ==
    /\ InitCommon
    /\ pc = "start"
    /\ now \in MainNows
    /\ auto \in BOOLEAN
    /\ date_ranges = <<>> /\ total_operations = 0
    /\ wi = 0 /\ di = 0 /\ max_retries = 0 /\ attempt = 0

Raise(e, why) ==
    /\ exc' = e /\ endedBy' = why /\ pc' = "unwinding"

\* if not test_server_connectivity(): sys.exit(1)
Probe ==
    /\ pc = "start"
    /\ \E p \in ProbeAnswers :
         /\ probe' = p
         /\ healthGets' = healthGets + 1
         /\ LET r == test_server_connectivity(p)
            IN  IF r = "True" THEN pc' = "generate" /\ UNCHANGED <<exc, endedBy>>
                ELSE IF r = "False" THEN Raise("SystemExit1", "probe")
                ELSE Raise("Exception", "unexpected")
    /\ UNCHANGED <<now, auto, date_ranges, total_operations, confirm, all_results,
                   operation_count, wi, di, max_retries, attempt, response,
                   result, posts, sleeps, firstOk, importPosted, filesWritten,
                   saveFailed, exitCode>>

\* the --auto test, the prompt, and the initialisation of the run loop
Confirm ==
    /\ pc = "confirm"
    /\ IF auto
       THEN /\ pc' = "loop" /\ wi' = 1 /\ di' = 1
            /\ UNCHANGED <<confirm, exc, endedBy>>
       ELSE \E ans \in Answers \cup {<<"EOF">>} :
              IF ans = <<"EOF">>
              THEN Raise("Exception", "unexpected") /\ UNCHANGED <<confirm, wi, di>>
              ELSE /\ confirm' = ans
                   /\ IF Accepts(ans)
                      THEN /\ pc' = "loop" /\ wi' = 1 /\ di' = 1
                           /\ UNCHANGED <<exc, endedBy>>
                      ELSE Raise("SystemExit0", "declined") /\ UNCHANGED <<wi, di>>
    /\ UNCHANGED <<now, auto, date_ranges, total_operations, all_results,
                   operation_count, max_retries, attempt, response, result,
                   posts, sleeps, firstOk, importPosted, healthGets, probe,
                   filesWritten, saveFailed, exitCode>>

\* operation_count += 1 and the call of make_filtered_import_request
StartOperation ==
    /\ pc = "loop"
    /\ wi <= Len(date_ranges)
    /\ operation_count' = operation_count + 1
    /\ max_retries' = DefaultMaxRetries
    /\ attempt' = 1
    /\ posts' = 0 /\ sleeps' = <<>> /\ firstOk' = 0
    /\ response' = NoResponse /\ result' = NoResult
    /\ pc' = "request"
    /\ UNCHANGED <<now, auto, date_ranges, total_operations, confirm, all_results,
                   wi, di, importPosted, healthGets, probe, filesWritten,
                   saveFailed, exc, endedBy, exitCode>>

Request == Attempt(MainResponses)

\* the decoration, all_results.append(result), time.sleep(1), next pair
RecordResult ==
    /\ pc = "returned"
    /\ all_results' =
           Append(all_results, Decorate(result, date_ranges[wi], operation_count))
    /\ wi' = NextPair(wi, di)[1]
    /\ di' = NextPair(wi, di)[2]
    /\ attempt' = 0 /\ posts' = 0 /\ sleeps' = <<>> /\ firstOk' = 0
    /\ response' = NoResponse /\ result' = NoResult
    /\ pc' = "loop"
    /\ UNCHANGED <<now, auto, date_ranges, total_operations, confirm,
                   operation_count, max_retries, importPosted, healthGets, probe,
                   filesWritten, saveFailed, exc, endedBy, exitCode>>

\* save_results_to_file: a failure to write is caught and printed
Persist ==
    /\ pc = "loop"
    /\ wi > Len(date_ranges)
    /\ \E written \in BOOLEAN :
         IF written THEN filesWritten' = filesWritten + 1 /\ UNCHANGED saveFailed
         ELSE saveFailed' = TRUE /\ UNCHANGED filesWritten
    /\ pc' = "summary"
    /\ UNCHANGED <<now, auto, date_ranges, total_operations, confirm, all_results,
                   operation_count, wi, di, max_retries, attempt, response,
                   result, posts, sleeps, firstOk, importPosted, healthGets,
                   probe, exc, endedBy, exitCode>>

\* print_summary and the return of main
Summary ==
    /\ pc = "summary"
    /\ IF SummaryRaises(all_results)
       THEN Raise("Exception", "unexpected")
       ELSE Raise(None, "completed")
    /\ UNCHANGED <<now, auto, date_ranges, total_operations, confirm, all_results,
                   operation_count, wi, di, max_retries, attempt, response,
                   result, posts, sleeps, firstOk, importPosted, healthGets,
                   probe, filesWritten, saveFailed, exitCode>>

\* Ctrl-C: no except clause inside main catches KeyboardInterrupt
Interrupt ==
    /\ pc \in {"start", "generate", "confirm", "loop", "request", "returned",
               "summary"}
    /\ Raise("KeyboardInterrupt", "interrupt")
    /\ UNCHANGED <<now, auto, date_ranges, total_operations, confirm, all_results,
                   operation_count, wi, di, max_retries, attempt, response,
                   result, posts, sleeps, firstOk, importPosted, healthGets,
                   probe, filesWritten, saveFailed, exitCode>>

\* the except clauses of the __main__ block and the exit of the process
TopLevel ==
    /\ pc = "unwinding"
    /\ exitCode' = ExitStatus(exc)
    /\ pc' = "done"
    /\ UNCHANGED <<now, auto, date_ranges, total_operations, confirm, all_results,
                   operation_count, wi, di, max_retries, attempt, response,
                   result, posts, sleeps, firstOk, importPosted, healthGets,
                   probe, filesWritten, saveFailed, exc, endedBy>>

NextRun ==
    \/ Probe
    \/ Generate
    \/ Confirm
    \/ StartOperation
    \/ Request
    \/ RecordResult
    \/ Persist
    \/ Summary
    \/ TopLevel

Next == NextRun \/ Interrupt

Spec == Init /\ [][Next]_vars

\* the run without a process interrupt; a started run loop keeps running
SpecRun ==
    /\ Init
    /\ [][NextRun]_vars
    /\ WF_vars(StartOperation \/ Request \/ RecordResult \/ Persist)

----------------------------------------------------------------------------
(* Properties *)

RECURSIVE SumSeq(_)
SumSeq(q) == IF q = <<>> THEN 0 ELSE q[1] + SumSeq(Tail(q))

\* the calendar, as a table
DaysTable == <<31, 28, 31, 30, 31, 30, 31, 31, 30, 31, 30, 31>>
LastCalendarDay(y, m) ==
    IF m = 2 /\ y % 4 = 0 /\ (y % 100 # 0 \/ y % 400 = 0) THEN 29 ELSE DaysTable[m]

\* the i-th calendar month counted from June 2025 (i = 1 is June 2025)
MonthAt(i) == <<2025 + ((5 + i - 1) \div 12), ((5 + i - 1) % 12) + 1>>

\* C1: with max attempt count N >= 1, a call in which no attempt was answered
\* with a success (200, parseable, success flag true) makes exactly N POSTs and
\* returns a failure carrying the message of the last attempt; a call whose
\* first success answer came on attempt k makes exactly k POSTs.
C1_RetryBound ==
    pc = "returned" =>
        /\ firstOk = 0 =>
              /\ posts = max_retries
              /\ ~result.success
              /\ result.error = TryBlock(response).error
        /\ firstOk # 0 => posts = firstOk

\* C2: an attempt answered with HTTP 200, a parseable body and a true success
\* flag returns a success result on that very attempt, whatever results,
\* database and jsonFile hold: no further attempt, no backoff sleep.
C2_SuccessReturnsAtOnce ==
    OkResponse(response) =>
        /\ pc = "returned"
        /\ result.success
        /\ posts = firstOk
        /\ Len(sleeps) = posts - 1

\* C9: after failed attempt i < N the executor sleeps 2^i seconds before
\* attempt i+1, after the failed N-th attempt it returns without sleeping:
\* one sleep between consecutive attempts, 2^N - 2 seconds in total for a
\* call that always fails.
C9_Backoff ==
    /\ \A i \in DOMAIN sleeps : sleeps[i] = 2 ^ i
    /\ pc = "request" => Len(sleeps) = posts /\ attempt = posts + 1
    /\ pc = "returned" => Len(sleeps) = posts - 1
    /\ (pc = "returned" /\ ~result.success) =>
           /\ posts = max_retries
           /\ SumSeq(sleeps) = 2 ^ max_retries - 2

C9_Witness ==
    /\ pc = "returned" /\ ~result.success /\ max_retries = 4
    /\ sleeps = <<2, 4, 8>>

\* C4: for "now" on or after 2025-06-29 there is one window per calendar month
\* from June 2025 through the month of "now", in order; every end date is
\* <= now; the first window starts on day 29, the others on day 1; every
\* window ends on the last day of its month except the final one, which ends
\* on the day of "now".
C4_Windows ==
    (pc = "confirm" /\ DateLE(<<StartYear, StartMonth, StartDay>>, now)) =>
        LET n == Len(date_ranges) IN
        /\ n = (now[1] - 2025) * 12 + (now[2] - 6) + 1
        /\ \A i \in 1..n :
             LET w == date_ranges[i] IN
             /\ <<w.year, w.month>> = MonthAt(i)
             /\ <<w.start_date[1], w.start_date[2]>> = MonthAt(i)
             /\ <<w.end_date[1], w.end_date[2]>> = MonthAt(i)
             /\ DateLE(w.end_date, now)
             /\ w.start_date[3] = (IF i = 1 THEN 29 ELSE 1)
             /\ w.end_date[3] = (IF i = n THEN now[3]
                                 ELSE LastCalendarDay(w.year, w.month))
        /\ now = <<2025, 7, 15>> =>
             /\ n = 2
             /\ date_ranges[1].start_date = <<2025, 6, 29>>
             /\ date_ranges[1].end_date = <<2025, 6, 30>>
             /\ date_ranges[2].start_date = <<2025, 7, 1>>
             /\ date_ranges[2].end_date = <<2025, 7, 15>>

C4_Witness ==
    /\ pc = "confirm" /\ now = <<2026, 3, 10>> /\ Len(date_ranges) = 10
    /\ date_ranges[9].end_date = <<2026, 2, 28>>

\* C10: for every "now", every generated window has start_date <= end_date.
C10_NoInvertedWindow ==
    \A i \in DOMAIN date_ranges :
        DateLE(date_ranges[i].start_date, date_ranges[i].end_date)

\* C5: when the connectivity probe reports the server unreachable, the probe
\* was issued exactly once, no import POST is issued, no results file is
\* written and the process exits with status 1.
C5_FailFast ==
    probe \in Unreachable =>
        /\ healthGets = 1
        /\ ~importPosted
        /\ filesWritten = 0
        /\ pc \in {"unwinding", "done"}
        /\ all_results = <<>>
        /\ pc = "done" => exitCode = 1

C5_Witness == probe = "status_503" /\ pc = "done" /\ exitCode = 1

\* an explicit yes: y or yes in any letter case
IsYes(ans) ==
    \/ Len(ans) = 1 /\ ans[1] \in {"y", "Y"}
    \/ Len(ans) = 3 /\ ans[1] \in {"y", "Y"} /\ ans[2] \in {"e", "E"}
                    /\ ans[3] \in {"s", "S"}

\* C6 as stated: in interactive mode no network I/O at all (health GET or
\* import POST) happens before the operator has answered yes.
C6_NoNetworkBeforeYes ==
    (~auto /\ (healthGets > 0 \/ importPosted)) => IsYes(confirm)

\* C6 as amended: in interactive mode no import POST happens before the
\* operator has answered yes, and none at all after any other answer; the one
\* health GET is issued before the prompt.
C6_NoImportBeforeYes ==
    /\ (~auto /\ (importPosted \/ pc \in {"loop", "request", "returned", "summary"}))
           => IsYes(confirm)
    /\ (~auto /\ ~IsYes(confirm)) => ~importPosted /\ all_results = <<>>
    /\ endedBy = "declined" => ~auto /\ ~IsYes(confirm) /\ healthGets = 1
    /\ pc = "confirm" => healthGets = 1 /\ ~importPosted

C6_Witness ==
    ~auto /\ importPosted /\ confirm = <<"Y", "e", "s">> /\ pc = "done"

\* C7: a terminated run has exit status 1 exactly when it ended by probe
\* failure, interrupt or an uncaught error, and 0 exactly when it ended by the
\* operator declining or by normal completion; a failed write of the results
\* file and failed operations leave it at 0.
C7_ExitCodes ==
    pc = "done" =>
        /\ exitCode \in {0, 1}
        /\ endedBy \in {"probe", "interrupt", "unexpected", "declined", "completed"}
        /\ exitCode = 1 <=> endedBy \in {"probe", "interrupt", "unexpected"}
        /\ exitCode = 0 <=> endedBy \in {"declined", "completed"}

C7_Witness ==
    /\ pc = "done" /\ endedBy = "completed" /\ exitCode = 0 /\ saveFailed
    /\ Len(all_results) = 2 * Len(EXPORT_MAPPINGS)
    /\ \A i \in DOMAIN all_results : ~all_results[i].success

\* C8: operations run one at a time in window-major order, descriptors in
\* declaration order; the i-th result carries operation_number = i and the
\* label and dates of its window.
C8_Order ==
    /\ \A i \in DOMAIN all_results :
         LET r == all_results[i]
             w == date_ranges[((i - 1) \div Len(EXPORT_MAPPINGS)) + 1]
             d == EXPORT_MAPPINGS[((i - 1) % Len(EXPORT_MAPPINGS)) + 1]
         IN  /\ r.operation_number = i
             /\ r.export_id = d.id /\ r.data_type = d.name
             /\ r.month_name = w.month_name
             /\ r.start_date = w.start_date /\ r.end_date = w.end_date
    /\ pc \in {"request", "returned"} => Len(all_results) = operation_count - 1
    /\ pc \in {"loop", "summary"} => Len(all_results) = operation_count
    /\ operation_count <= total_operations

C8_Witness ==
    /\ pc = "summary" /\ Len(date_ranges) = 2
    /\ Len(all_results) = 2 * Len(EXPORT_MAPPINGS)
    /\ all_results[Len(EXPORT_MAPPINGS) + 1].month_name = <<"July", 2025>>

\* exactly one result for each (window, descriptor) pair
Complete ==
    /\ Len(all_results) = Len(date_ranges) * Len(EXPORT_MAPPINGS)
    /\ \A w \in DOMAIN date_ranges : \A d \in DOMAIN EXPORT_MAPPINGS :
         Cardinality({i \in DOMAIN all_results :
                        /\ all_results[i].month_name = date_ranges[w].month_name
                        /\ all_results[i].start_date = date_ranges[w].start_date
                        /\ all_results[i].export_id = EXPORT_MAPPINGS[d].id}) = 1

\* C3: without a process interrupt a started run loop is never aborted by a
\* failing operation: it reaches the persist/summary step, and there the
\* results hold exactly one result per (window, descriptor) pair.
C3_RunCompletes ==
    /\ [](pc = "summary" => Complete)
    /\ [](pc \in {"loop", "request", "returned"} => <>(pc = "summary"))

C3_Witness ==
    /\ pc = "summary" /\ Len(all_results) = 2 * Len(EXPORT_MAPPINGS)
    /\ \A i \in DOMAIN all_results :
         ~all_results[i].success /\ all_results[i].error[1] = "HTTP "

====
